---- MODULE Spec2Model ----
(***************************************************************************)
(* Model of the ThisAmericanScraper-JSON scripts:                          *)
(*   script/scrape.py          merge/update pipeline over data.json        *)
(*   script/normalize_dates.py date normalisation into data_fixed.json     *)
(*   script/generateFeed.py    feed renderer (feed.xml)                    *)
(*   script/markdown.py        tabular index renderer (episodes.md)        *)
(*                                                                         *)
(* Date strings are modelled by their textual form and the calendar fields *)
(* they spell: [form, day, hour, off].  day counts days from 1970-01-01,   *)
(* hour is the hour of day the text shows and off is the UTC offset (in    *)
(* hours) it carries.  An instant is a number of hours since the epoch.    *)
(*                                                                         *)
(* A record keeps the fields the scripts decide on: episode_url, number,   *)
(* original_air_date, explicit, download, download_clean, published_dates. *)
(* title, synopsis, image and acts are only copied into the outputs.       *)
(***************************************************************************)
EXTENDS Integers, Sequences, FiniteSets, TLC

VARIABLES
    data,         \* contents of data.json: sequence of episode records
    data_fixed,   \* contents of data_fixed.json
    feed_xml,     \* contents of feed.xml
    episodes_md,  \* contents of episodes.md
    web,          \* what the site serves for every episode URL
    lastOp,       \* the script that ran last
    exitStatus    \* "ok" or "error" (uncaught exception) of the script that ran last

vars == <<data, data_fixed, feed_xml, episodes_md, web, lastOp, exitStatus>>

(* ------------------------------ bounds --------------------------------- *)
MaxDay == 2
MaxFeed == 2
MaxEps == 2

DEFAULT_NUM_EPISODES == 1

Days == 1..MaxDay

(* --------------------------- date strings ------------------------------ *)
Text(form, day, hour, off) == [form |-> form, day |-> day, hour |-> hour, off |-> off]
\* "1970-01-02"
Iso(d) == Text("iso", d, 0, 0)
\* "January 2, 1970"
Long(d) == Text("long", d, 0, 0)
\* "Jan 2, 1970"
Abbr(d) == Text("abbr", d, 0, 0)
\* "Fri, 02 Jan 1970 22:00:00 -0400"
Rfc(d, h, o) == Text("rfc", d, h, o)
\* a string no script recognises, e.g. "Aug. 22nd 2008"
Garbage == Text("bad", 0, 0, 0)
\* the empty string (also stands for a missing value, which is falsy too)
Empty == Text("empty", 0, 0, 0)
None == "None"

\* the instant (hours since the epoch, UTC) the calendar fields of s denote
UtcHours(s) == s.day * 24 + s.hour - s.off

InSeq(x, s) == \E i \in 1..Len(s) : s[i] = x

\* list.sort / sorted with a key function: the keys are computed once per element
\* (decorate), the pairs are sorted by key, ascending and stable, and the elements
\* are read back.  Keyed pairs are [k |-> key, v |-> element].
RECURSIVE InsertAsc(_, _)
InsertAsc(x, s) ==
    IF s = <<>> THEN <<x>>
    ELSE IF x.k < Head(s).k THEN <<x>> \o s
    ELSE <<Head(s)>> \o InsertAsc(x, Tail(s))

RECURSIVE SortAsc(_)
SortAsc(s) ==
    IF s = <<>> THEN <<>>
    ELSE InsertAsc(s[Len(s)], SortAsc(SubSeq(s, 1, Len(s) - 1)))

Values(s) == [i \in 1..Len(s) |-> s[i].v]

(* ------------------------------ scrape.py ------------------------------ *)
\* parse_any_date raises ValueError unless one of its three formats matches
scrape_parse_raises(s) == s.form \notin {"iso", "rfc", "long"}
\* parse_any_date: convert to UTC, then truncate to midnight
scrape_parse_any_date(s) == (UtcHours(s) \div 24) * 24

\* pub_date[:25]: an RFC-822 string loses its UTC offset, shorter strings are kept
Prefix25(s) == IF s.form = "rfc" THEN Text("rfc_no_offset", s.day, s.hour, 0) ELSE s

\* dt.strftime("%Y-%m-%d")
strftime_iso(dt) == Iso(dt \div 24)

NoPage == [fetched |-> FALSE, number |-> <<>>, air |-> Empty,
           download |-> None, download_clean |-> None]

\* scrape_episode returns None: the fetch failed, or the page has no download link
scrape_returns_none(url, site) == ~site[url].fetched \/ site[url].download = None

\* the record scrape_episode returns otherwise
scrape_episode(url, site) ==
    LET page == site[url] IN
         [episode_url |-> url,
          number |-> page.number,
          original_air_date |-> page.air,
          explicit |-> (page.download_clean # None),
          download |-> page.download,
          download_clean |-> page.download_clean,
          published_dates |-> IF page.air # Empty THEN <<page.air>> ELSE <<>>]

HasUrl(episodes, url) == \E i \in 1..Len(episodes) : episodes[i].episode_url = url
\* next((ep for ep in episodes if ep["episode_url"] == url), None), as an index (0: None)
FirstWithUrl(episodes, url) ==
    IF HasUrl(episodes, url)
    THEN CHOOSE i \in 1..Len(episodes) :
            /\ episodes[i].episode_url = url
            /\ \A j \in 1..(i - 1) : episodes[j].episode_url # url
    ELSE 0

\* entries[:n]
Slice(entries, n) ==
    IF n >= 0 THEN SubSeq(entries, 1, IF n < Len(entries) THEN n ELSE Len(entries))
    ELSE SubSeq(entries, 1, IF Len(entries) + n > 0 THEN Len(entries) + n ELSE 0)

ModeAll == [kind |-> "all", n |-> 0]
ModeLatest == [kind |-> "latest", n |-> 0]
ModeOther == [kind |-> "other", n |-> 0]
ModeInt(n) == [kind |-> "int", n |-> n]

entries_to_scrape(entries, mode) ==
    IF mode.kind = "all" THEN entries
    ELSE IF mode.kind = "latest" THEN Slice(entries, DEFAULT_NUM_EPISODES)
    ELSE IF mode.kind = "int" THEN Slice(entries, mode.n)
    ELSE Slice(entries, DEFAULT_NUM_EPISODES)

\* merge without the test for an existing episode_url
RECURSIVE merge_without_skip(_, _, _)
merge_without_skip(episodes, entries, site) ==
    IF entries = <<>> THEN episodes
    ELSE LET url == Head(entries).link
         IN IF ~scrape_returns_none(url, site)
            THEN merge_without_skip(Append(episodes, scrape_episode(url, site)), Tail(entries), site)
            ELSE merge_without_skip(episodes, Tail(entries), site)

\* the loop of main over entries_to_scrape
RECURSIVE merge(_, _, _)
merge(episodes, entries, site) ==
    IF entries = <<>> THEN episodes
    ELSE LET url == Head(entries).link
         IN IF ~HasUrl(episodes, url) /\ ~scrape_returns_none(url, site)
            THEN merge(Append(episodes, scrape_episode(url, site)), Tail(entries), site)
            ELSE merge(episodes, Tail(entries), site)

\* the publish date replacing the history instead of joining it
OverwritePublished(dates, pub_str) == <<pub_str>>

\* the append without the membership test
AppendUnguarded(dates, pub_str) == Append(dates, pub_str)

\* the guarded append of update_published_dates
AppendPublished(dates, pub_str) ==
    IF ~InSeq(pub_str, dates) THEN Append(dates, pub_str) ELSE dates

RECURSIVE update_published_dates(_, _)
update_published_dates(episodes, entries) ==
    IF entries = <<>> THEN [raised |-> FALSE, episodes |-> episodes]
    ELSE LET item == Head(entries)
             pub_date == item.published
         IN IF pub_date = Empty
            THEN update_published_dates(episodes, Tail(entries))
            ELSE IF scrape_parse_raises(pub_date) /\ scrape_parse_raises(Prefix25(pub_date))
            THEN [raised |-> TRUE, episodes |-> episodes]
            ELSE LET dt == IF scrape_parse_raises(pub_date)
                           THEN scrape_parse_any_date(Prefix25(pub_date))
                           ELSE scrape_parse_any_date(pub_date)
                     pub_str == strftime_iso(dt)
                     i == FirstWithUrl(episodes, item.link)
                 IN IF i # 0
                    THEN update_published_dates(
                            [episodes EXCEPT ![i].published_dates = AppendPublished(@, pub_str)],
                            Tail(entries))
                    ELSE update_published_dates(episodes, Tail(entries))

\* sorted(ep["published_dates"], key=parse_any_date) raises on an unparseable entry
SortRaises(episodes) ==
    \E i \in 1..Len(episodes) :
        \E k \in 1..Len(episodes[i].published_dates) :
            scrape_parse_raises(episodes[i].published_dates[k])

\* sorted(ep["published_dates"], key=parse_any_date)
sorted_published_dates(dates) ==
    Values(SortAsc([k \in 1..Len(dates) |->
                      [k |-> scrape_parse_any_date(dates[k]), v |-> dates[k]]]))

SortPublished(episodes) ==
    [i \in 1..Len(episodes) |->
        [episodes[i] EXCEPT !.published_dates = sorted_published_dates(@)]]

\* main of scrape.py as a function of data.json, the feed, SCRAPE_MODE and the site:
\* what it leaves in data.json, and whether it ended by an uncaught exception
scrape_main(persisted, entries, mode, site) ==
    LET merged == merge(persisted, entries_to_scrape(entries, mode), site)
        updated == update_published_dates(merged, entries)
    IN IF updated.raised \/ SortRaises(updated.episodes)
       THEN [raised |-> TRUE, episodes |-> persisted]
       ELSE [raised |-> FALSE, episodes |-> SortPublished(updated.episodes)]

(* --------------------------- normalize_dates.py ------------------------ *)
\* parse_date returns None unless one of its three formats matches
parse_date_is_none(d) == d.form \notin {"iso", "long", "abbr"}
\* parse_date: the naive datetime, as hours since the epoch on the local clock
parse_date(d) == d.day * 24 + d.hour

\* to_rfc822: astimezone reads a naive datetime on the local clock (UTC offset zone)
to_rfc822(dt, zone) ==
    LET utc == dt - zone IN Rfc(utc \div 24, utc % 24, 0)

\* rank of the weekday name "%a" of a day among the seven names in string order
\* (1970-01-01 was a Thursday): Fri < Mon < Sat < Sun < Thu < Tue < Wed
WeekdayRank(day) ==
    LET w == day % 7 IN
    CASE w = 0 -> 5 [] w = 1 -> 1 [] w = 2 -> 3 [] w = 3 -> 4
      [] w = 4 -> 2 [] w = 5 -> 6 [] OTHER -> 7

\* string order of two RFC-822 strings of the same month
StrLess(a, b) ==
    \/ WeekdayRank(a.day) < WeekdayRank(b.day)
    \/ WeekdayRank(a.day) = WeekdayRank(b.day) /\ a.day < b.day
    \/ a.day = b.day /\ a.hour < b.hour

\* sorted(normalized): the strings of a set in ascending string order
RECURSIVE sorted_strings(_)
sorted_strings(S) ==
    IF S = {} THEN <<>>
    ELSE LET least == CHOOSE x \in S : \A y \in S \ {x} : StrLess(x, y)
         IN <<least>> \o sorted_strings(S \ {least})

normalize_episode(ep, zone) ==
    [ep EXCEPT
        !.original_air_date =
            IF @ # Empty /\ ~parse_date_is_none(@) THEN to_rfc822(parse_date(@), zone) ELSE @,
        !.published_dates =
            sorted_strings({to_rfc822(parse_date(@[k]), zone) :
                              k \in {j \in 1..Len(@) : ~parse_date_is_none(@[j])}})]

normalize_dates(episodes, zone) ==
    [i \in 1..Len(episodes) |-> normalize_episode(episodes[i], zone)]

(* ---------------------------- generateFeed.py -------------------------- *)
\* parse_any_date raises ValueError unless RFC-822, ISO or the long form matches
feed_parse_raises(s) == s.form \notin {"rfc", "iso", "long"}
\* parse_any_date: the instant in UTC; the time of day of an RFC-822 string is kept
feed_parse_any_date(s) == UtcHours(s)

\* format_rfc822: "%a, %d %b %Y %H:%M:%S %z" in UTC
format_rfc822(dt) == Rfc(dt \div 24, dt % 24, 0)

\* dt.strftime('%Y%m%d')
strftime_ymd(dt) == ToString(dt \div 24)

Max(S) == CHOOSE x \in S : \A y \in S : y <= x

\* max((parse_any_date(d) for d in published_dates), default=parse_any_date(air))
latest_pub_dt(ep) ==
    IF ep.published_dates = <<>> THEN feed_parse_any_date(ep.original_air_date)
    ELSE Max({feed_parse_any_date(ep.published_dates[k]) : k \in 1..Len(ep.published_dates)})

\* the default of max and orig_dt parse the air date, the generator parses the rest
item_raises(ep) ==
    \/ feed_parse_raises(ep.original_air_date)
    \/ \E k \in 1..Len(ep.published_dates) : feed_parse_raises(ep.published_dates[k])

\* str.zfill(width): zeros after a leading sign, up to width characters
RECURSIVE Zeros(_)
Zeros(n) == IF n <= 0 THEN <<>> ELSE <<"0">> \o Zeros(n - 1)
zfill(str, width) ==
    IF Len(str) >= width THEN str
    ELSE IF str # <<>> /\ Head(str) \in {"+", "-"}
    THEN <<Head(str)>> \o Zeros(width - Len(str)) \o Tail(str)
    ELSE Zeros(width - Len(str)) \o str

\* the clean guid without its suffix
guid_clean_without_suffix(ep) == zfill(ep.number, 4) \o <<"-", strftime_ymd(latest_pub_dt(ep))>>

guid_of(ep) == zfill(ep.number, 4) \o <<"-", strftime_ymd(latest_pub_dt(ep))>>
guid_clean_of(ep) == guid_of(ep) \o <<"-", "C">>

item_of(ep) ==
    [link |-> ep.episode_url,
     guid |-> guid_of(ep),
     explicit |-> IF ep.explicit THEN "true" ELSE "false",
     pubDate |-> format_rfc822(latest_pub_dt(ep)),
     enclosure |-> ep.download]

item_clean_of(ep) ==
    [link |-> ep.episode_url,
     guid |-> guid_clean_of(ep),
     explicit |-> "clean",
     pubDate |-> format_rfc822(latest_pub_dt(ep)),
     enclosure |-> ep.download_clean]

\* the clean item emitted whether or not there is a clean file
items_always_clean(ep) ==
    IF ep.download = None THEN <<>> ELSE <<item_of(ep), item_clean_of(ep)>>

\* the items one record appends: none without a download, a second one for the clean file
items_of(ep) ==
    IF ep.download = None THEN <<>>
    ELSE IF ep.download_clean # None THEN <<item_of(ep), item_clean_of(ep)>>
    ELSE <<item_of(ep)>>

\* the loop of main over the episodes; a record with a download and a bad date raises
RECURSIVE build_items(_)
build_items(episodes) ==
    IF episodes = <<>> THEN [raised |-> FALSE, items |-> <<>>]
    ELSE LET ep == Head(episodes) IN
         IF ep.download # None /\ item_raises(ep) THEN [raised |-> TRUE, items |-> <<>>]
         ELSE LET rest == build_items(Tail(episodes)) IN
              IF rest.raised THEN rest
              ELSE [raised |-> FALSE, items |-> items_of(ep) \o rest.items]

Reverse(s) == [i \in 1..Len(s) |-> s[Len(s) + 1 - i]]

\* an ascending sort read backwards: descending, but equal keys swap their order
SortAscReversed(keyed) == Reverse(SortAsc(keyed))

\* list.sort(key=..., reverse=True): descending, equal keys keep their order
SortDesc(keyed) == Reverse(SortAsc(Reverse(keyed)))

\* items.sort(key=lambda x: parse_any_date(<pubDate of x>), reverse=True)
sort_items(items) ==
    Values(SortDesc([i \in 1..Len(items) |->
                       [k |-> feed_parse_any_date(items[i].pubDate), v |-> items[i]]]))

\* feed.xml: what an earlier run left there, or the items this run wrote
PreviousFeed == [previous |-> TRUE, items |-> <<>>]
FeedFile(items) == [previous |-> FALSE, items |-> items]

\* main of generateFeed.py: the file is opened for writing after the items are sorted
generate_feed(episodes, old_file) ==
    LET built == build_items(episodes) IN
    IF built.raised THEN [raised |-> TRUE, file |-> old_file]
    ELSE [raised |-> FALSE, file |-> FeedFile(sort_items(built.items))]

(* ------------------------------ markdown.py ---------------------------- *)
\* strptime(air.split(" +")[0], "%a, %d %b %Y %H:%M:%S") raises unless the string is
\* RFC-822 with a "+hhmm" offset
sort_key_raises(ep) ==
    ~(ep.original_air_date.form = "rfc" /\ ep.original_air_date.off >= 0)
\* the naive datetime the sort compares: the offset is split off, not applied
sort_key(ep) == ep.original_air_date.day * 24 + ep.original_air_date.hour

\* strptime(air.split(" +")[0], "%B %d, %Y") raises unless the string is long-form
row_raises(ep) == ep.original_air_date.form # "long"

row_of(ep) ==
    [link |-> ep.episode_url, air_date |-> Iso(ep.original_air_date.day),
     download |-> ep.download, clean |-> ep.download_clean]

\* the loop writing the rows: rows written before an exception stay in the file
RECURSIVE write_rows(_)
write_rows(episodes) ==
    IF episodes = <<>> THEN [raised |-> FALSE, rows |-> <<>>]
    ELSE IF row_raises(Head(episodes)) THEN [raised |-> TRUE, rows |-> <<>>]
    ELSE LET rest == write_rows(Tail(episodes)) IN
         [raised |-> rest.raised, rows |-> <<row_of(Head(episodes))>> \o rest.rows]

sort_episodes(episodes) ==
    Values(SortAsc([i \in 1..Len(episodes) |->
                      [k |-> sort_key(episodes[i]), v |-> episodes[i]]]))

\* episodes.md: what an earlier run left there, or the header and rows this run wrote
PreviousIndex == [previous |-> TRUE, rows |-> <<>>]
IndexFile(rows) == [previous |-> FALSE, rows |-> rows]

\* markdown.py: the sort runs before the file is opened, the rows are built after
markdown(episodes, old_file) ==
    IF \E i \in 1..Len(episodes) : sort_key_raises(episodes[i])
    THEN [raised |-> TRUE, file |-> old_file]
    ELSE LET written == write_rows(sort_episodes(episodes)) IN
         [raised |-> written.raised, file |-> IndexFile(written.rows)]

(* ------------------------------- inputs -------------------------------- *)
URLs == {"u1", "u2"}
Numbers == {<<>>, <<"7">>, <<"0", "0", "0", "7">>}

Page(number, air, download, download_clean) ==
    [fetched |-> TRUE, number |-> number, air |-> air,
     download |-> download, download_clean |-> download_clean]

\* pages the site may serve: none (fetch failure), one without a download link, and
\* pages with a long-form air date, without one, or with one in another spelling
Pages ==
    {NoPage,
     Page(<<"7">>, Long(1), None, None),
     Page(<<"7">>, Long(MaxDay), "a.mp3", "c.mp3"),
     Page(<<>>, Empty, "a.mp3", None),
     Page(<<"7">>, Abbr(1), "a.mp3", None)}

\* published strings of the official feed: missing, unparseable, and RFC-822 at
\* 22:00 -0400 (the next day in UTC)
Published == {Empty, Garbage, Rfc(MaxDay - 1, 22, 0 - 4), Rfc(MaxDay, 22, 0 - 4)}
Entries == [link : URLs, published : Published]
RECURSIVE SeqsUpTo(_, _)
SeqsUpTo(S, n) ==
    IF n = 0 THEN {<<>>}
    ELSE LET shorter == SeqsUpTo(S, n - 1)
         IN shorter \cup {Append(q, x) : q \in {r \in shorter : Len(r) = n - 1}, x \in S}
Feeds == SeqsUpTo(Entries, MaxFeed)
Modes == {ModeAll, ModeLatest, ModeOther, ModeInt(0 - 1)}
Zones == {0, 0 - 4}

\* data_fixed.json: absent, or the episodes normalize_dates.py wrote
NoFixedFile == [written |-> FALSE, episodes |-> <<>>]
FixedFile(episodes) == [written |-> TRUE, episodes |-> episodes]

\* a persisted record as the renderers read it
Record(url, number, air, download, download_clean, dates) ==
    [episode_url |-> url, number |-> number, original_air_date |-> air,
     explicit |-> (download_clean # None), download |-> download,
     download_clean |-> download_clean, published_dates |-> dates]

\* air date and publish history of a record: normalized; normalized and backfilled
\* (ISO, and RFC-822 with a time of day); scraped and never published; with an
\* unparseable publish date; without an air date
DateCases ==
    {<<Rfc(d, 0, 0), <<Rfc(d, 0, 0)>>>> : d \in Days}
    \cup {<<Rfc(1, 0, 0), <<Iso(MaxDay), Rfc(1, 22, 0 - 4)>>>>,
          <<Long(1), <<>>>>,
          <<Rfc(1, 0, 0), <<Garbage>>>>,
          <<Empty, <<>>>>}
Downloads == {<<None, None>>, <<"a.mp3", None>>, <<"a.mp3", "c.mp3">>}

UrlAt(i) == "u" \o ToString(i)
\* number, air date with publish history, and download links of a record
Shapes == Numbers \X DateCases \X Downloads
RecordAt(i, shape) ==
    Record(UrlAt(i), shape[1], shape[2][1], shape[3][1], shape[3][2], shape[2][2])
\* the collection of the records of the given shapes, with pairwise distinct episode_url
Collection(shapes) == [i \in 1..Len(shapes) |-> RecordAt(i, shapes[i])]

\* data.json before the first run: absent (read as []), or one record as the
\* normalisation pass leaves it
Persisted ==
    {<<>>, normalize_dates(<<scrape_episode("u1", [u \in URLs |-> Page(<<"7">>, Long(1), "a.mp3", None)])>>, 0)}

Init ==
    /\ data \in Persisted
    /\ data_fixed = NoFixedFile
    /\ feed_xml = PreviousFeed
    /\ episodes_md = PreviousIndex
    /\ web \in [URLs -> Pages]
    /\ lastOp = "none"
    /\ exitStatus = "ok"

\* python script/scrape.py, with the official feed serving entries and SCRAPE_MODE=mode
\* (main and update_published_dates each fetch the feed; both fetches of one run
\* return the same entries)
Scrape ==
    \E entries \in Feeds, mode \in Modes :
        LET run == scrape_main(data, entries, mode, web) IN
        /\ data' = run.episodes
        /\ exitStatus' = IF run.raised THEN "error" ELSE "ok"
        /\ lastOp' = "scrape"
        /\ UNCHANGED <<data_fixed, feed_xml, episodes_md, web>>

\* python script/normalize_dates.py
\* python script/normalize_dates.py, on a machine whose clock is zone hours from UTC
NormalizeDates ==
    \E zone \in Zones :
        /\ data_fixed' = FixedFile(normalize_dates(data, zone))
        /\ exitStatus' = "ok"
        /\ lastOp' = "normalize"
        /\ UNCHANGED <<data, feed_xml, episodes_md, web>>

\* python script/generateFeed.py
GenerateFeed ==
    LET run == generate_feed(data, feed_xml) IN
    /\ feed_xml' = run.file
    /\ exitStatus' = IF run.raised THEN "error" ELSE "ok"
    /\ lastOp' = "feed"
    /\ UNCHANGED <<data, data_fixed, episodes_md, web>>

\* python script/markdown.py
Markdown ==
    LET run == markdown(data, episodes_md) IN
    /\ episodes_md' = run.file
    /\ exitStatus' = IF run.raised THEN "error" ELSE "ok"
    /\ lastOp' = "markdown"
    /\ UNCHANGED <<data, data_fixed, feed_xml, web>>

\* the merge/update pipeline, run any number of times
Next == Scrape
Spec == Init /\ [][Next]_vars

\* the pipeline and the normalisation pass, in any order
NextNormalize == Scrape \/ NormalizeDates
NormalizeSpec == Init /\ [][NextNormalize]_vars

\* the two renderers over a persisted collection
RenderInit ==
    /\ \E n \in 0..MaxEps : \E shapes \in [1..n -> Shapes] : data = Collection(shapes)
    /\ data_fixed = NoFixedFile
    /\ feed_xml = PreviousFeed
    /\ episodes_md = PreviousIndex
    /\ web = [u \in URLs |-> NoPage]
    /\ lastOp = "none"
    /\ exitStatus = "ok"
NextRender == GenerateFeed \/ Markdown
RenderSpec == RenderInit /\ [][NextRender]_vars

(* ------------------------------ properties ----------------------------- *)
UniqueUrls(episodes) ==
    \A i, j \in 1..Len(episodes) :
        i # j => episodes[i].episode_url # episodes[j].episode_url

\* C1: after any number of runs of scrape.py, over any feed entries (a batch may
\* list a URL twice), the episode_url values of data.json are pairwise distinct.
C1_UrlsStayUnique == UniqueUrls(data)

W1_TwoRecordsMerged ==
    /\ lastOp = "scrape"
    /\ exitStatus = "ok"
    /\ Len(data) = 2

\* every entry of old occurs in new at least as often
KeepsEntries(old, new) ==
    \A k \in 1..Len(old) :
        Cardinality({j \in 1..Len(old) : old[j] = old[k]})
            <= Cardinality({j \in 1..Len(new) : new[j] = old[k]})

KeepsRecord(old, new) ==
    /\ [new EXCEPT !.published_dates = <<>>] = [old EXCEPT !.published_dates = <<>>]
    /\ KeepsEntries(old.published_dates, new.published_dates)

\* a feed entry whose URL matches no record leaves the collection as it is
UnmatchedIgnored(episodes) ==
    \A e \in Entries :
        ~HasUrl(episodes, e.link)
            => update_published_dates(episodes, <<e>>).episodes = episodes

\* C2: a run of scrape.py removes no record of data.json, changes no field of an
\* existing record but published_dates, and only adds entries to published_dates;
\* a feed entry whose URL matches no record changes nothing.
C2_AppendOnly ==
    [][/\ Len(data') >= Len(data)
       /\ \A i \in 1..Len(data) : KeepsRecord(data[i], data'[i])
       /\ UnmatchedIgnored(data')]_vars

W2_DateBackfilled ==
    /\ lastOp = "scrape"
    /\ exitStatus = "ok"
    /\ \E i \in 1..Len(data) :
          /\ Len(data[i].published_dates) >= 2
          /\ data[i].published_dates[1] = data[i].original_air_date
    /\ \E e \in Entries : ~HasUrl(data, e.link) /\ ~scrape_parse_raises(e.published)

NoDuplicateInstants(dates) ==
    \A j, k \in 1..Len(dates) :
        j # k => scrape_parse_any_date(dates[j]) # scrape_parse_any_date(dates[k])

AscendingByInstant(dates) ==
    \A k \in 1..(Len(dates) - 1) :
        scrape_parse_any_date(dates[k]) <= scrape_parse_any_date(dates[k + 1])

\* C3: after every run of scrape.py, the published_dates of every record holds no
\* two entries denoting the same instant, whatever their spelling, and is sorted
\* ascending by instant.
C3_DedupedAndSorted ==
    \A i \in 1..Len(data) :
        /\ NoDuplicateInstants(data[i].published_dates)
        /\ AscendingByInstant(data[i].published_dates)

\* C4: a renderer ending by an exception leaves its output file as it was; for
\* generateFeed.py and for markdown.py.
C4_FailureLeavesArtifact ==
    exitStatus = "error" =>
        /\ lastOp = "feed" => feed_xml = PreviousFeed
        /\ lastOp = "markdown" => episodes_md = PreviousIndex

FeedWritten == ~feed_xml.previous

UniqueGuids(items) ==
    \A i, j \in 1..Len(items) : i # j => items[i].guid # items[j].guid

\* C5 as stated: with pairwise distinct episode_url values, the guids of one
\* rendered feed are pairwise distinct.
C5_GuidsUniqueByUrl ==
    FeedWritten /\ UniqueUrls(data) => UniqueGuids(feed_xml.items)

\* no two records with a download share the padded number and the latest publish day
DistinctNumberAndDay(episodes) ==
    \A i, j \in 1..Len(episodes) :
        (/\ i # j
         /\ episodes[i].download # None
         /\ episodes[j].download # None
         /\ zfill(episodes[i].number, 4) = zfill(episodes[j].number, 4))
            => latest_pub_dt(episodes[i]) \div 24 # latest_pub_dt(episodes[j]) \div 24

\* C5 amended: the guids of one rendered feed are pairwise distinct provided no two
\* records with a download share both the number padded to 4 and the day of the
\* latest publish instant.
C5_GuidsUniqueByNumberAndDay ==
    FeedWritten /\ DistinctNumberAndDay(data) => UniqueGuids(feed_xml.items)

W5_SameNumberOtherDay ==
    /\ FeedWritten
    /\ Len(feed_xml.items) = 4
    /\ DistinctNumberAndDay(data)
    /\ data[1].number # data[2].number
    /\ zfill(data[1].number, 4) = zfill(data[2].number, 4)

ItemsOf(url) == {k \in 1..Len(feed_xml.items) : feed_xml.items[k].link = url}

\* C6: a rendered feed holds no item of a record without download, one item of a
\* record with download and no download_clean, and two items of a record with both,
\* whose guids differ by the trailing "-C" of the clean one.
C6_ItemsPerRecord ==
    FeedWritten =>
        \A i \in 1..Len(data) :
            LET ep == data[i]
                its == ItemsOf(ep.episode_url)
            IN /\ ep.download = None => its = {}
               /\ ep.download # None /\ ep.download_clean = None =>
                      /\ Cardinality(its) = 1
                      /\ \A k \in its : feed_xml.items[k].enclosure = ep.download
               /\ ep.download # None /\ ep.download_clean # None =>
                      /\ Cardinality(its) = 2
                      /\ \E k, c \in its :
                            /\ feed_xml.items[k].enclosure = ep.download
                            /\ feed_xml.items[c].enclosure = ep.download_clean
                            /\ feed_xml.items[c].guid = feed_xml.items[k].guid \o <<"-", "C">>

W6_AllThreeCases ==
    /\ FeedWritten
    /\ Len(data) = 2
    /\ data[1].download # None /\ data[1].download_clean # None
    /\ data[2].download # None /\ data[2].download_clean = None
    /\ Len(feed_xml.items) = 3

RecordOf(item) == CHOOSE i \in 1..Len(data) : data[i].episode_url = item.link

\* the publish instant of a record: the latest of published_dates, or the air date
PublishInstant(ep) ==
    IF ep.published_dates = <<>> THEN UtcHours(ep.original_air_date)
    ELSE Max({UtcHours(ep.published_dates[k]) : k \in 1..Len(ep.published_dates)})

\* the place of an item in the order of emission
Emitted(item) == 2 * RecordOf(item) + (IF item.enclosure = data[RecordOf(item)].download THEN 0 ELSE 1)

\* C7: the items of a rendered feed are in descending order of publish instant, and
\* items of the same instant are in the order they were emitted (a record's standard
\* item before its clean one).
C7_NewestFirstStable ==
    FeedWritten =>
        \A a, b \in 1..Len(feed_xml.items) :
            a < b =>
                LET x == feed_xml.items[a]
                    y == feed_xml.items[b]
                IN /\ PublishInstant(data[RecordOf(x)]) >= PublishInstant(data[RecordOf(y)])
                   /\ PublishInstant(data[RecordOf(x)]) = PublishInstant(data[RecordOf(y)])
                          => Emitted(x) < Emitted(y)

W7_ReorderedWithTie ==
    /\ FeedWritten
    /\ Len(feed_xml.items) = 3
    /\ feed_xml.items[1].link = data[2].episode_url
    /\ feed_xml.items[1].pubDate # feed_xml.items[2].pubDate
    /\ feed_xml.items[2].pubDate = feed_xml.items[3].pubDate

Normalized(episodes) ==
    \A i \in 1..Len(episodes) :
        /\ episodes[i].original_air_date.form = "rfc"
        /\ episodes[i].original_air_date.off = 0

\* C8: over a non-empty data.json whose original_air_date values are RFC-822,
\* markdown.py completes and writes one row per record, in ascending order of air date.
C8_OneRowPerRecordAscending ==
    lastOp = "markdown" /\ data # <<>> /\ Normalized(data) =>
        /\ exitStatus = "ok"
        /\ Len(episodes_md.rows) = Len(data)
        /\ \A k \in 1..(Len(episodes_md.rows) - 1) :
              episodes_md.rows[k].air_date.day <= episodes_md.rows[k + 1].air_date.day

\* C9: running scrape.py again with the same feed entries, the same SCRAPE_MODE and
\* the same site leaves data.json as the first of the two runs left it.
C9_SecondRunChangesNothing ==
    \A entries \in Feeds, mode \in Modes :
        LET once == scrape_main(data, entries, mode, web).episodes
        IN scrape_main(once, entries, mode, web).episodes = once

W9_RunAddsRecordAndDate ==
    /\ lastOp = "scrape"
    /\ Len(data) = 1
    /\ \E entries \in Feeds :
          LET once == scrape_main(data, entries, ModeAll, web)
          IN /\ ~once.raised
             /\ Len(once.episodes) = 2
             /\ Len(once.episodes[1].published_dates) > Len(data[1].published_dates)
             /\ Len(once.episodes[2].published_dates) >= 2

\* C10: every record normalize_dates.py has written holds at least one entry in
\* published_dates.
C10_PublishedDatesNonEmpty ==
    data_fixed.written =>
        \A i \in 1..Len(data_fixed.episodes) : data_fixed.episodes[i].published_dates # <<>>

====
